---- MODULE Spec2Model ----
(***************************************************************************)
(* FastAPICosmosDB: the provisioning API of app/routers/cosmos_router.py,  *)
(* the in-memory StatusTracker, the AzureCosmosManager with its executor   *)
(* futures and done-callbacks, and the e-mail notifications.               *)
(*                                                                         *)
(* The asyncio event loop runs one unit at a time (a request handler, a    *)
(* background task, a done-callback).  None of the units suspends between  *)
(* its first and last statement, so a unit that has started holds the loop *)
(* (variable running) until its last step.  The provider's long-running    *)
(* operation runs in an executor thread and may finish at any moment.      *)
(***************************************************************************)
EXTENDS Naturals, Sequences, FiniteSets, Bags, TLC

\* ------------------------------------------------------------------ bounds
MaxRequests == 2

\* ------------------------------------------------------------------ inputs
AccountNames == {"acct-a", "acct-b"}
Locations == {"Central India"}
CosmosAPIType == {"sql", "mongo"}

\* CosmosAccountStatus
QUEUED == "queued"
IN_PROGRESS == "in_progress"
COMPLETED == "completed"
ERROR == "error"

\* Python's None, for a message or an exception that is absent
None == "None"

\* exception texts, str(e)
SubmitErrors == {"Disk Full"}
\* begin_create_or_update or begin_delete is rejected; poller.result() fails
AcceptErrors == {"HttpResponseError"}
PollErrors == {"AzureError"}
ProviderErrors == AcceptErrors \cup PollErrors
DoesNotExist(account_name) == "Account " \o account_name \o " does not exist."

\* what the SMTP server does to one notification attempt
Transports == {"ok", "connect_failed", "login_failed", "send_refused", "send_error"}

VARIABLES
    statues,           \* StatusTracker._statues: account name -> record
    now,               \* datetime.now() at the latest write of each record
    requests,          \* the requests received, by request number
    response,          \* the HTTP response of each request (code 0: not sent yet)
    background_tasks,  \* execute_provisioning of each create request
    future,            \* the executor future of each request
    callback,          \* the done-callback of each future
    manager_calls,     \* the calls of the manager's create/delete, per request
    emails,            \* the notifications dispatched, a bag
    running,           \* the unit that holds the event loop, and its sender
    unhandled,         \* units an exception escaped from
    last_get,          \* the GET being answered and its response
    submitted_since,   \* history: a request for the account arrived after the
                       \* latest write of its record
    written,           \* history: the statuses each flow has written, in order
    rejected,          \* the request body being rejected and its response
    provider_calls,    \* the provider calls handed to the executor, per request
    last_writer        \* history: the request whose flow wrote each record last

vars == <<statues, now, requests, response, background_tasks, future, callback,
          manager_calls, emails, running, unhandled, last_get, submitted_since,
          written, rejected, provider_calls, last_writer>>

Rids == 1..Len(requests)

\* ------------------------------------------------------------ StatusTracker
NoRecord == [account_name |-> None, status |-> None, created_at |-> 0,
             updated_at |-> 0, message |-> None]

\* mutant: an update without a message keeps the message of the old record
update_status_merge(st, account_name, status, message, t) ==
    [k \in DOMAIN st \cup {account_name} |->
        IF k = account_name
        THEN [account_name |-> account_name, status |-> status,
              created_at |-> t, updated_at |-> t,
              message |-> IF message = None /\ k \in DOMAIN st
                          THEN st[k].message ELSE message]
        ELSE st[k]]

\* mutant: a record that reached COMPLETED or ERROR is never replaced
update_status_keep_terminal(st, account_name, status, message, t) ==
    [k \in DOMAIN st \cup {account_name} |->
        IF /\ k = account_name
           /\ ~(k \in DOMAIN st /\ st[k].status \in {COMPLETED, ERROR})
        THEN [account_name |-> account_name, status |-> status,
              created_at |-> t, updated_at |-> t, message |-> message]
        ELSE st[k]]

\* mutant: an update starts the store afresh with the one record
update_status_fresh(st, account_name, status, message, t) ==
    [k \in {account_name} |->
        [account_name |-> account_name, status |-> status,
         created_at |-> t, updated_at |-> t, message |-> message]]

\* mutant: an update of an existing record keeps its created_at
update_status_keep_created(st, account_name, status, message, t) ==
    [k \in DOMAIN st \cup {account_name} |->
        IF k = account_name
        THEN [account_name |-> account_name, status |-> status,
              created_at |-> IF k \in DOMAIN st THEN st[k].created_at ELSE t,
              updated_at |-> t, message |-> message]
        ELSE st[k]]

update_status(st, account_name, status, message, t) ==
    [k \in DOMAIN st \cup {account_name} |->
        IF k = account_name
        THEN [account_name |-> account_name, status |-> status,
              created_at |-> t, updated_at |-> t, message |-> message]
        ELSE st[k]]

\* mutant: a default record instead of None for an unknown account
get_status_default(st, account_name) ==
    IF account_name \in DOMAIN st THEN st[account_name]
    ELSE [NoRecord EXCEPT !.account_name = account_name, !.status = QUEUED]

get_status(st, account_name) ==
    IF account_name \in DOMAIN st THEN st[account_name] ELSE NoRecord

\* ------------------------------------------------------------- GmailSender
\* the sender after __enter__ (connect): smtplib.SMTP(), ehlo, starttls, login
GmailSenderEnter(t) ==
    IF t = "connect_failed"
    THEN [connection |-> FALSE, exc |-> "SMTPConnectError", delivered |-> FALSE]
    ELSE IF t = "login_failed"
         THEN [connection |-> TRUE, exc |-> "SMTPAuthenticationError",
               delivered |-> FALSE]
         ELSE [connection |-> TRUE, exc |-> None, delivered |-> FALSE]

\* send: an SMTPException becomes {"success": False}; anything else propagates
GmailSenderSend(s, t) ==
    IF ~s.connection THEN [s EXCEPT !.exc = "RuntimeError"]
    ELSE IF t = "send_error" THEN [s EXCEPT !.exc = "OSError"]
    ELSE IF t = "send_refused" THEN s
    ELSE [s EXCEPT !.delivered = TRUE]

\* __exit__ (disconnect): quit and drop the connection
GmailSenderExit(s) ==
    IF s.connection THEN [s EXCEPT !.connection = FALSE] ELSE s

\* with GmailSender(settings) as sender: sender.send(...)
WithGmailSender(t) ==
    LET entered == GmailSenderEnter(t)
    IN  IF entered.exc # None THEN entered
        ELSE GmailSenderExit(GmailSenderSend(entered, t))

\* mutant: send_email without its try/except
send_email_unguarded(t) == WithGmailSender(t)

\* email_service.send_email: try ... except Exception: logger.error
send_email(t) == [WithGmailSender(t) EXCEPT !.exc = None]

\* mutant: the router's send_* functions without their try/except
router_send_unguarded(t) == WithGmailSender(t)

\* the router's own send_* functions: the same try/except around the sender
router_send(t) == [WithGmailSender(t) EXCEPT !.exc = None]

\* ------------------------------------------------------------ HTTP bodies
EmptyBody == NoRecord

HTTPResponse(code, error_code, message, body) ==
    [code |-> code, error_code |-> error_code, message |-> message, body |-> body]

NoResponse == HTTPResponse(0, None, None, EmptyBody)

NoGet == [account_name |-> None, resp |-> NoResponse]

NoRejection == [account_name |-> None, location |-> None, resp |-> NoResponse]

\* ---------------------------------------------------------- the event loop
Idle == [rid |-> 0, unit |-> "idle", pc |-> "idle", err |-> None, exc |-> None,
         connection |-> FALSE, delivered |-> FALSE]

Unit(r, unit, pc, err) ==
    [rid |-> r, unit |-> unit, pc |-> pc, err |-> err, exc |-> None,
     connection |-> FALSE, delivered |-> FALSE]

Init ==
    /\ statues = [k \in {} |-> NoRecord]
    /\ now = [a \in AccountNames |-> 0]
    /\ requests = << >>
    /\ response = << >>
    /\ background_tasks = << >>
    /\ future = << >>
    /\ callback = << >>
    /\ manager_calls = << >>
    /\ emails = EmptyBag
    /\ running = Idle
    /\ unhandled = {}
    /\ last_get = NoGet
    /\ submitted_since = [a \in AccountNames |-> FALSE]
    /\ written = << >>
    /\ rejected = NoRejection
    /\ provider_calls = << >>
    /\ last_writer = [a \in AccountNames |-> 0]

\* ------------------------------------------- CreateCosmosAccountRequest
\* request bodies that do not pass the model's Field constraints
InvalidNames == {"acct-"}
InvalidLocations == {"IN"}

BodyNames == AccountNames \cup InvalidNames
BodyLocations == Locations \cup InvalidLocations

\* the characters of the strings a body carries
Spelling(str) ==
    CASE str = "acct-a" -> <<"a", "c", "c", "t", "-", "a">>
      [] str = "acct-b" -> <<"a", "c", "c", "t", "-", "b">>
      [] str = "acct-" -> <<"a", "c", "c", "t", "-">>
      [] str = "Central India" ->
             <<"C", "e", "n", "t", "r", "a", "l", " ", "I", "n", "d", "i", "a">>
      [] str = "IN" -> <<"I", "N">>

Lower == {"a", "b", "c", "d", "e", "f", "g", "h", "i", "j", "k", "l", "m",
          "n", "o", "p", "q", "r", "s", "t", "u", "v", "w", "x", "y", "z"}
Digit == {"0", "1", "2", "3", "4", "5", "6", "7", "8", "9"}

\* account_name: min_length=3, max_length=44,
\* pattern ^[a-z]+[a-z0-9-]{1,42}[a-z0-9]$
ValidAccountName(account_name) ==
    LET sp == Spelling(account_name)
        n == Len(sp)
    IN  /\ n >= 3
        /\ n <= 44
        /\ sp[1] \in Lower
        /\ \A i \in 2..(n - 1) : sp[i] \in Lower \cup Digit \cup {"-"}
        /\ sp[n] \in Lower \cup Digit

\* location: min_length=5
ValidLocation(location) == Len(Spelling(location)) >= 5

\* the fields of the body that fail validation
ValidationErrors(account_name, location) ==
    (IF ValidAccountName(account_name) THEN {} ELSE {"account_name"})
        \cup (IF ValidLocation(location) THEN {} ELSE {"location"})

\* the answer to a body that fails validation: FastAPI validates the body
\* parameter before it calls the handler and answers 422 with the failing fields
ValidationResponse(errors) ==
    HTTPResponse(422, None,
                 IF errors = {"account_name"} THEN "body.account_name"
                 ELSE IF errors = {"location"} THEN "body.location"
                 ELSE "body.account_name, body.location",
                 EmptyBody)

\* a POST whose body fails validation: create_cosmos_account does not run
CreateRejected(account_name, location) ==
    /\ running = Idle
    /\ ValidationErrors(account_name, location) # {}
    /\ rejected' = [account_name |-> account_name, location |-> location,
                    resp |-> ValidationResponse(
                                 ValidationErrors(account_name, location))]
    /\ running' = Unit(0, "validation", "respond", None)
    /\ UNCHANGED <<statues, now, requests, response, background_tasks, future,
                   callback, manager_calls, emails, unhandled, last_get,
                   submitted_since, written, provider_calls, last_writer>>

\* ... and the 422 leaves for the client
RejectReturn ==
    /\ running.unit = "validation"
    /\ running' = Idle
    /\ rejected' = NoRejection
    /\ UNCHANGED <<statues, now, requests, response, background_tasks, future,
                   callback, manager_calls, emails, unhandled, last_get,
                   submitted_since, written, provider_calls, last_writer>>

\* ------------------------------------------------- POST /cosmos/accounts
\* mutant: the handler publishes the status of the started task
CreateHandlerStatus_Started == IN_PROGRESS

\* the status the handler publishes before it schedules the background task
CreateHandlerStatus == QUEUED

\* create_cosmos_account: update_status(QUEUED), add_task(execute_provisioning),
\* return get_status(account_name) with 202
CreateAccount(account_name, location, api_type) ==
    /\ running = Idle
    /\ ValidationErrors(account_name, location) = {}
    /\ Len(requests) < MaxRequests
    /\ LET st == update_status(statues, account_name, CreateHandlerStatus, None,
                                now[account_name] + 1)
       IN  /\ statues' = st
           /\ response' = Append(response,
                  HTTPResponse(202, None, None, get_status(st, account_name)))
    /\ now' = [now EXCEPT ![account_name] = @ + 1]
    /\ requests' = Append(requests, [op |-> "create", account_name |-> account_name,
                                     location |-> location, api_type |-> api_type,
                                     probe |-> None])
    /\ background_tasks' = Append(background_tasks, "scheduled")
    /\ future' = Append(future, "none")
    /\ callback' = Append(callback, "none")
    /\ manager_calls' = Append(manager_calls, << >>)
    /\ submitted_since' = [submitted_since EXCEPT ![account_name] = FALSE]
    /\ written' = Append(written, <<CreateHandlerStatus>>)
    /\ provider_calls' = Append(provider_calls, << >>)
    /\ last_writer' = [last_writer EXCEPT ![account_name] = Len(requests) + 1]
    /\ UNCHANGED <<emails, running, unhandled, last_get, rejected>>

\* -------------------------------- GET /cosmos/accounts/{account_name}
GetHandler(st, account_name) ==
    IF get_status(st, account_name) = NoRecord
    THEN HTTPResponse(404, "ACCOUNT_NOT_FOUND",
                      "Provisioning for CosmosDB account " \o account_name
                          \o " not found", EmptyBody)
    ELSE HTTPResponse(200, None, None, get_status(st, account_name))

\* get_provisioning_status: the handler computes its response ...
GetStatus(account_name) ==
    /\ running = Idle
    /\ last_get' = [account_name |-> account_name,
                    resp |-> GetHandler(statues, account_name)]
    /\ running' = Unit(0, "get", "respond", None)
    /\ UNCHANGED <<statues, now, requests, response, background_tasks, future,
                   callback, manager_calls, emails, unhandled, submitted_since,
                   written, rejected, provider_calls, last_writer>>

\* ... and the response leaves for the client
GetReturn ==
    /\ running.unit = "get"
    /\ running' = Idle
    /\ last_get' = NoGet
    /\ UNCHANGED <<statues, now, requests, response, background_tasks, future,
                   callback, manager_calls, emails, unhandled, submitted_since,
                   written, rejected, provider_calls, last_writer>>

\* ------------------------------------------------- execute_provisioning
StartedMessage == "Resource provisioning started"

\* mutant: the background task starts without publishing IN_PROGRESS
TaskStart_NoPublish(r) ==
    /\ running = Idle
    /\ r \in Rids
    /\ background_tasks[r] = "scheduled"
    /\ background_tasks' = [background_tasks EXCEPT ![r] = "running"]
    /\ running' = Unit(r, "task", "call", None)
    /\ UNCHANGED <<statues, now, requests, response, future, callback,
                   manager_calls, emails, unhandled, last_get, submitted_since,
                   written, rejected, provider_calls, last_writer>>

\* the background task starts: update_status(IN_PROGRESS)
TaskStart(r) ==
    /\ running = Idle
    /\ r \in Rids
    /\ background_tasks[r] = "scheduled"
    /\ statues' = update_status(statues, requests[r].account_name, IN_PROGRESS,
                                StartedMessage, now[requests[r].account_name] + 1)
    /\ now' = [now EXCEPT ![requests[r].account_name] = @ + 1]
    /\ background_tasks' = [background_tasks EXCEPT ![r] = "running"]
    /\ running' = Unit(r, "task", "call", None)
    /\ submitted_since' = [submitted_since EXCEPT ![requests[r].account_name] = FALSE]
    /\ written' = [written EXCEPT ![r] = Append(@, IN_PROGRESS)]
    /\ last_writer' = [last_writer EXCEPT ![requests[r].account_name] = r]
    /\ UNCHANGED <<requests, response, future, callback, manager_calls, emails,
                   unhandled, last_get, rejected, provider_calls>>

\* mutant: the call is made with the default api_type
CreateCall_DefaultApi(r, raised) ==
    [fn |-> "create_account_async", account_name |-> requests[r].account_name,
     location |-> requests[r].location, api_type |-> "sql",
     raised |-> raised]

\* the call execute_provisioning makes, and the exception it ended with
CreateCall(r, raised) ==
    [fn |-> "create_account_async", account_name |-> requests[r].account_name,
     location |-> requests[r].location, api_type |-> requests[r].api_type,
     raised |-> raised]

\* await manager.create_account_async(...): run_in_executor and
\* add_done_callback, then return at once; or an exception before the future exists
\* _map_api_type: the provider's account kind of an API type
map_api_type(api_type) ==
    CASE api_type = "sql" -> "GlobalDocumentDB"
      [] api_type = "mongo" -> "MongoDB"

\* mutant: no API type carries API properties
get_api_properties_none(api_type) == None

\* _get_api_properties: ApiProperties(server_version="3.2") for MONGO, else None
get_api_properties(api_type) ==
    IF api_type = "mongo" THEN "ApiProperties(server_version=3.2)" ELSE None

\* DatabaseAccountCreateUpdateParameters as create_account_async builds them
create_params(location, api_type) ==
    [location |-> location,
     kind |-> map_api_type(api_type),
     locations |-> <<[location_name |-> location, failover_priority |-> 0]>>,
     database_account_offer_type |-> "Standard",
     api_properties |-> get_api_properties(api_type)]

\* sync_create_and_wait of create_account_async, as handed to the executor
begin_create_or_update(account_name, params) ==
    [fn |-> "begin_create_or_update", account_name |-> account_name,
     params |-> params]

\* sync_create_and_wait of delete_account_async, as handed to the executor
begin_delete(account_name) ==
    [fn |-> "begin_delete", account_name |-> account_name, params |-> None]

TaskCall ==
    /\ running.unit = "task"
    /\ running.pc = "call"
    /\ \/ /\ manager_calls' = [manager_calls EXCEPT ![running.rid] =
                                     Append(@, CreateCall(running.rid, None))]
          /\ provider_calls' = [provider_calls EXCEPT ![running.rid] =
                 Append(@, begin_create_or_update(
                               requests[running.rid].account_name,
                               create_params(requests[running.rid].location,
                                             requests[running.rid].api_type)))]
          /\ future' = [future EXCEPT ![running.rid] = "pending"]
          /\ callback' = [callback EXCEPT ![running.rid] = "attached"]
          /\ running' = [running EXCEPT !.pc = "completed"]
       \/ \E e \in SubmitErrors :
          /\ manager_calls' = [manager_calls EXCEPT ![running.rid] =
                                     Append(@, CreateCall(running.rid, e))]
          /\ running' = [running EXCEPT !.pc = "error", !.err = e]
          /\ future' = future
          /\ callback' = callback
          /\ provider_calls' = provider_calls
    /\ UNCHANGED <<statues, now, requests, response, background_tasks, emails,
                   unhandled, last_get, submitted_since, written, rejected,
                   last_writer>>

\* ------------------------------------- status writes of task and callback
CompletedMessage(op) ==
    IF op = "create" THEN "Provisioning completed successfully"
    ELSE "Deleting completed successfully"

\* mutant: the success path leaves the status at IN_PROGRESS
SuccessStatus_InProgress == IN_PROGRESS

\* the status a task or a callback publishes on its success path
SuccessStatus == COMPLETED

\* mutant: the except branch publishes QUEUED again
FailureStatus_Queued == QUEUED

\* mutant: the except branch publishes COMPLETED
FailureStatus_Completed == COMPLETED

\* the status a task or a callback publishes in its except branch
FailureStatus == ERROR

\* update_status(COMPLETED, ...): the task right after create_account_async
\* returned, the callback after fut.result() returned
WriteCompleted ==
    /\ running.unit \in {"task", "callback"}
    /\ running.pc = "completed"
    /\ statues' = update_status(statues, requests[running.rid].account_name,
                                SuccessStatus,
                                CompletedMessage(requests[running.rid].op),
                                now[requests[running.rid].account_name] + 1)
    /\ now' = [now EXCEPT ![requests[running.rid].account_name] = @ + 1]
    /\ running' = [running EXCEPT !.pc = "notify_success"]
    /\ submitted_since' =
           [submitted_since EXCEPT ![requests[running.rid].account_name] = FALSE]
    /\ written' = [written EXCEPT ![running.rid] = Append(@, SuccessStatus)]
    /\ last_writer' = [last_writer EXCEPT ![requests[running.rid].account_name] =
                                    running.rid]
    /\ UNCHANGED <<requests, response, background_tasks, future, callback,
                   manager_calls, emails, unhandled, last_get, rejected,
                   provider_calls>>

\* except Exception as e: update_status(ERROR, str(e))
WriteError ==
    /\ running.unit \in {"task", "callback"}
    /\ running.pc = "error"
    /\ statues' = update_status(statues, requests[running.rid].account_name,
                                FailureStatus, running.err,
                                now[requests[running.rid].account_name] + 1)
    /\ now' = [now EXCEPT ![requests[running.rid].account_name] = @ + 1]
    /\ running' = [running EXCEPT !.pc = "notify_failure"]
    /\ submitted_since' =
           [submitted_since EXCEPT ![requests[running.rid].account_name] = FALSE]
    /\ written' = [written EXCEPT ![running.rid] = Append(@, FailureStatus)]
    /\ last_writer' = [last_writer EXCEPT ![requests[running.rid].account_name] =
                                    running.rid]
    /\ UNCHANGED <<requests, response, background_tasks, future, callback,
                   manager_calls, emails, unhandled, last_get, rejected,
                   provider_calls>>

\* ---------------------------------------------------------- notifications
\* which of the four notifications a unit sends on its success or failure path
NotificationKind(op, pc) ==
    IF op = "create"
    THEN (IF pc = "notify_success" THEN "create_success" ELSE "create_failure")
    ELSE (IF pc = "notify_success" THEN "delete_success" ELSE "delete_failure")

\* mutant: the failure templates leave the error text out
Notification_NoErrorText(r, unit, pc, err) ==
    LET kind == NotificationKind(requests[r].op, pc)
    IN  [rid |-> r, unit |-> unit, kind |-> kind,
         account_name |-> requests[r].account_name,
         api_type |-> IF kind = "create_success" THEN requests[r].api_type ELSE None,
         location |-> IF kind = "create_success" THEN requests[r].location ELSE None,
         error_message |-> None]

\* the fields the subject and body templates are filled with
Notification(r, unit, pc, err) ==
    LET kind == NotificationKind(requests[r].op, pc)
    IN  [rid |-> r, unit |-> unit, kind |-> kind,
         account_name |-> requests[r].account_name,
         api_type |-> IF kind = "create_success" THEN requests[r].api_type ELSE None,
         location |-> IF kind = "create_success" THEN requests[r].location ELSE None,
         error_message |-> IF pc = "notify_failure" THEN err ELSE None]

\* the callbacks send through email_templates and email_service.send_email,
\* the handler and the background task through the router's own functions
Sender(unit, t) == IF unit = "callback" THEN send_email(t) ELSE router_send(t)

\* send_success_notification, send_failure_notification,
\* send_deletion_success_email, send_deletion_failure_email
Notify(t) ==
    /\ running.pc \in {"notify_success", "notify_failure"}
    /\ emails' = emails (+) SetToBag({Notification(running.rid, running.unit,
                                                    running.pc, running.err)})
    /\ LET sent == Sender(running.unit, t)
       IN  running' = [running EXCEPT
                          !.pc = IF running.pc = "notify_success"
                                 THEN "sent_success" ELSE "sent_failure",
                          !.exc = sent.exc,
                          !.connection = sent.connection,
                          !.delivered = sent.delivered]
    /\ UNCHANGED <<statues, now, requests, response, background_tasks, future,
                   callback, manager_calls, unhandled, last_get,
                   submitted_since, written, rejected, provider_calls,
                   last_writer>>

\* the response of DELETE once the notification call has returned
DeleteResponse(pc, err, exc) ==
    IF exc # None THEN HTTPResponse(500, "INTERNAL_SERVER_ERROR", exc, EmptyBody)
    ELSE IF pc = "sent_success" THEN HTTPResponse(204, None, None, EmptyBody)
    ELSE HTTPResponse(404, "ACCOUNT_NOT_FOUND", err, EmptyBody)

\* what follows the notification call: an exception out of the success
\* notification of a task or callback lands in its except branch; otherwise the
\* unit ends (an exception out of the failure notification escapes the unit)
AfterNotify ==
    /\ running.pc \in {"sent_success", "sent_failure"}
    /\ IF running.unit \in {"task", "callback"} /\ running.pc = "sent_success"
          /\ running.exc # None
       THEN /\ running' = [running EXCEPT !.pc = "error", !.err = running.exc,
                                          !.exc = None, !.connection = FALSE,
                                          !.delivered = FALSE]
            /\ UNCHANGED <<response, background_tasks, callback, unhandled,
                           submitted_since>>
       ELSE /\ running' = Idle
            /\ unhandled' = IF running.exc # None
                            THEN unhandled \cup {<<running.rid, running.unit>>}
                            ELSE unhandled
            /\ response' = IF running.unit = "handler"
                           THEN [response EXCEPT ![running.rid] =
                                    DeleteResponse(running.pc, running.err, running.exc)]
                           ELSE response
            /\ background_tasks' = IF running.unit = "task"
                                   THEN [background_tasks EXCEPT ![running.rid] = "done"]
                                   ELSE background_tasks
            /\ callback' = IF running.unit = "callback"
                           THEN [callback EXCEPT ![running.rid] = "done"]
                           ELSE callback
    /\ UNCHANGED <<statues, now, requests, future, manager_calls, emails,
                   last_get, submitted_since, written, rejected,
                   provider_calls, last_writer>>

\* ------------------------------------------------------ done-callbacks
\* callback(fut) of create_account_async and of delete_account_async:
\* fut.result() returns or raises the error of the long-running operation
CallbackStart(r) ==
    /\ running = Idle
    /\ r \in Rids
    /\ callback[r] = "attached"
    /\ future[r] \in {"ok"} \cup ProviderErrors
    /\ callback' = [callback EXCEPT ![r] = "running"]
    /\ running' = IF future[r] = "ok"
                  THEN Unit(r, "callback", "completed", None)
                  ELSE Unit(r, "callback", "error", future[r])
    /\ UNCHANGED <<statues, now, requests, response, background_tasks, future,
                   manager_calls, emails, unhandled, last_get, submitted_since,
                   written, rejected, provider_calls, last_writer>>

\* ------------------------------------------------------------ provider
\* sync_create_and_wait in the executor thread: begin_create_or_update or
\* begin_delete, then poller.result(); it ends with a result or an error
ProviderCompletes(r, outcome) ==
    /\ r \in Rids
    /\ future[r] = "pending"
    /\ future' = [future EXCEPT ![r] = outcome]
    /\ UNCHANGED <<statues, now, requests, response, background_tasks,
                   callback, manager_calls, emails, running, unhandled,
                   last_get, submitted_since, written, rejected,
                   provider_calls, last_writer>>

\* ------------------------------------- DELETE /cosmos/accounts/{account_name}
\* get_account_async: the account, or None on any AzureError
get_account_async(probe) == IF probe = "found" THEN "account" ELSE None

\* mutant: the existence check says yes to every account
account_exists_always(probe) == TRUE

account_exists(probe) == get_account_async(probe) # None

\* what database_accounts.get can answer: the account, ResourceNotFoundError,
\* or another AzureError (the provider cannot be reached)
Probes == {"found", "not_found", "azure_error"}

\* the call delete_cosmos_account makes, and the exception it ended with
DeleteCall(account_name, probe) ==
    [fn |-> "delete_account_async", account_name |-> account_name,
     location |-> None, api_type |-> None,
     raised |-> IF account_exists(probe) THEN None ELSE DoesNotExist(account_name)]

\* delete_cosmos_account enters delete_account_async, whose first statement is
\* account_exists: a synchronous database_accounts.get on the event loop
DeleteAccount(account_name) ==
    /\ running = Idle
    /\ Len(requests) < MaxRequests
    /\ requests' = Append(requests, [op |-> "delete", account_name |-> account_name,
                                     location |-> None, api_type |-> None,
                                     probe |-> "pending"])
    /\ response' = Append(response, NoResponse)
    /\ background_tasks' = Append(background_tasks, "none")
    /\ manager_calls' = Append(manager_calls, << >>)
    /\ provider_calls' = Append(provider_calls, << >>)
    /\ future' = Append(future, "none")
    /\ callback' = Append(callback, "none")
    /\ submitted_since' = [submitted_since EXCEPT ![account_name] = TRUE]
    /\ running' = Unit(Len(requests) + 1, "handler", "probe", None)
    /\ written' = Append(written, << >>)
    /\ UNCHANGED <<statues, now, emails, unhandled, last_get, rejected,
                   last_writer>>

\* mutant: begin_delete is handed to the executor before the existence check
SubmitDelete_BeforeCheck(exists) == TRUE

\* delete_account_async goes on to run_in_executor only past the existence check
SubmitDelete(exists) == exists

\* database_accounts.get answers and delete_account_async runs to its end: it
\* raises ValueError when the probe says no, else submits begin_delete to the
\* executor and attaches the callback
ProbeReturns(probe) ==
    /\ running.unit = "handler"
    /\ running.pc = "probe"
    /\ requests' = [requests EXCEPT ![running.rid].probe = probe]
    /\ manager_calls' = [manager_calls EXCEPT ![running.rid] =
           <<DeleteCall(requests[running.rid].account_name, probe)>>]
    /\ IF SubmitDelete(account_exists(probe))
       THEN /\ provider_calls' = [provider_calls EXCEPT ![running.rid] =
                   <<begin_delete(requests[running.rid].account_name)>>]
            /\ future' = [future EXCEPT ![running.rid] = "pending"]
            /\ callback' = [callback EXCEPT ![running.rid] = "attached"]
       ELSE /\ UNCHANGED <<provider_calls, future, callback>>
    /\ IF account_exists(probe)
       THEN running' = [running EXCEPT !.pc = "notify_success"]
       ELSE running' = [running EXCEPT !.pc = "notify_failure",
                                       !.err = DoesNotExist(
                                           requests[running.rid].account_name)]
    /\ UNCHANGED <<statues, now, response, background_tasks, emails, unhandled,
                   last_get, submitted_since, written, rejected, last_writer>>

\* --------------------------------------------------------- specification
\* the next statement of the unit that holds the event loop
UnitStep ==
    \/ TaskCall
    \/ \E p \in Probes : ProbeReturns(p)
    \/ WriteCompleted
    \/ WriteError
    \/ \E t \in Transports : Notify(t)
    \/ AfterNotify
    \/ GetReturn
    \/ RejectReturn

Next ==
    \/ \E a \in BodyNames, l \in BodyLocations, k \in CosmosAPIType :
           CreateAccount(a, l, k)
    \/ \E a \in BodyNames, l \in BodyLocations : CreateRejected(a, l)
    \/ \E a \in AccountNames : GetStatus(a)
    \/ \E a \in AccountNames : DeleteAccount(a)
    \/ \E r \in Rids, o \in {"ok"} \cup ProviderErrors : ProviderCompletes(r, o)
    \/ \E r \in Rids : TaskStart(r)
    \/ \E r \in Rids : CallbackStart(r)
    \/ UnitStep

Spec == Init /\ [][Next]_vars

\* asyncio runs every ready handle in turn: a running unit goes on to its next
\* statement, and a scheduled background task or a callback of a finished future
\* gets the loop however many requests arrive in between.  Nothing makes a client
\* send a request or the provider finish.
FairSpec ==
    /\ Spec
    /\ WF_vars(UnitStep)
    /\ \A r \in 1..MaxRequests : SF_vars(TaskStart(r)) /\ SF_vars(CallbackStart(r))

\* ================================================================ claims
\* the account names some request (create or delete) has named
Submitted == {requests[r].account_name : r \in Rids}

Status(account_name) == get_status(statues, account_name).status

\* the notifications of one kind dispatched for request r, and how many
Dispatched(r, kind) == {n \in BagToSet(emails) : n.rid = r /\ n.kind = kind}

Count(r, kind) == BagCardinality([n \in Dispatched(r, kind) |-> emails[n]])

IsCreate(r) == r \in Rids /\ requests[r].op = "create"

IsDelete(r) == r \in Rids /\ requests[r].op = "delete"

\* a flow whose task or callback has still to run
InFlight(r) ==
    /\ r \in Rids
    /\ \/ background_tasks[r] \in {"scheduled", "running"}
       \/ callback[r] \in {"attached", "running"}
       \/ response[r].code = 0

\* C1: every POST /accounts is answered 202 with the QUEUED record of its
\* account, whatever other flows are queued, running or awaiting their callback,
\* and a status read right after the handler returned yields QUEUED too.
C1_CreateAnswersQueued ==
    [][Len(requests') = Len(requests) + 1 /\ requests'[Len(requests')].op = "create"
       => LET r == Len(requests')
              a == requests'[r].account_name
          IN  /\ response'[r].code = 202
              /\ response'[r].body.account_name = a
              /\ response'[r].body.status = QUEUED
              /\ running' = Idle
              /\ GetHandler(statues', a).code = 200
              /\ GetHandler(statues', a).body.status = QUEUED]_vars

\* C1 witness: a create was accepted for an account that has an earlier flow
\* awaiting its completion callback; the record reads QUEUED.
C1_Witness ==
    \E r, q \in Rids :
        /\ q < r
        /\ requests[q].account_name = requests[r].account_name
        /\ future[q] = "pending"
        /\ IsCreate(r)
        /\ background_tasks[r] = "scheduled"
        /\ response[r].code = 202
        /\ Status(requests[r].account_name) = QUEUED

\* C2: a GET for an account name no request has ever named is answered 404 with
\* error_code ACCOUNT_NOT_FOUND, whatever happened to the other accounts.
C2_NeverSubmittedIs404 ==
    \A a \in AccountNames \ Submitted :
        /\ GetHandler(statues, a).code = 404
        /\ GetHandler(statues, a).error_code = "ACCOUNT_NOT_FOUND"
        /\ last_get.account_name = a
            => /\ last_get.resp.code = 404
               /\ last_get.resp.error_code = "ACCOUNT_NOT_FOUND"

\* C2 witness: a GET is being answered for a never-submitted account while the
\* other account has gone through a create flow and a delete flow.
C2_Witness ==
    /\ last_get.account_name \in AccountNames \ Submitted
    /\ running.unit = "get"
    /\ \E r, q \in Rids : IsCreate(r) /\ IsDelete(q) /\ callback[r] = "done"

\* a request for the same account was submitted after request r
LaterRequest(r) ==
    \E q \in Rids : q > r /\ requests[q].account_name = requests[r].account_name

\* another flow for the account of r has its task or callback still to run
OtherInFlight(r) ==
    \E q \in Rids \ {r} :
        requests[q].account_name = requests[r].account_name /\ InFlight(q)

CreateSucceeded(r) == IsCreate(r) /\ future[r] = "ok"

\* C3 as stated: an accepted create flow whose long-running operation completes
\* successfully, with no further operation submitted for the account, eventually
\* has status COMPLETED for good.
C3_Original ==
    \A r \in 1..MaxRequests :
        (<>CreateSucceeded(r) /\ []~LaterRequest(r))
            => <>[](r \in Rids /\ Status(requests[r].account_name) = COMPLETED)

\* C3 amended: the same, provided that no other flow for the account is still in
\* flight once the flow's own completion callback has run.
C3_CompletedWhenLast ==
    \A r \in 1..MaxRequests :
        (/\ <>CreateSucceeded(r)
         /\ []~LaterRequest(r)
         /\ []((r \in Rids /\ callback[r] = "done") => ~OtherInFlight(r)))
            => <>[](r \in Rids /\ Status(requests[r].account_name) = COMPLETED)

\* C3 witness: a create flow has succeeded and run its callback after an earlier
\* flow for the same account finished; nothing else is due; status COMPLETED.
C3_Witness ==
    \E r, q \in Rids :
        /\ q < r
        /\ requests[q].account_name = requests[r].account_name
        /\ CreateSucceeded(r)
        /\ callback[r] = "done"
        /\ ~OtherInFlight(r)
        /\ running = Idle
        /\ Status(requests[r].account_name) = COMPLETED

\* a flow all of whose units (handler, background task, callback) have ended
FlowDone(r) ==
    /\ r \in Rids
    /\ response[r].code # 0
    /\ background_tasks[r] \in {"none", "done"}
    /\ callback[r] \in {"none", "done"}

\* C4 as stated: a create flow whose provisioning succeeded has dispatched, task
\* and callback together, exactly one create-success notification, naming the
\* account of the flow, and no failure notification.
C4_ExactlyOneCreateSuccess ==
    \A r \in Rids :
        (CreateSucceeded(r) /\ FlowDone(r))
            => /\ Count(r, "create_success") = 1
               /\ \A n \in Dispatched(r, "create_success") :
                      n.account_name = requests[r].account_name
               /\ Count(r, "create_failure") = 0

\* the create flow failed: create_account_async raised in the background task, or
\* the long-running operation failed and the callback was told
RaisedInTask(r) ==
    /\ Len(manager_calls[r]) > 0
    /\ manager_calls[r][1].raised # None

CreateFailed(r) ==
    /\ IsCreate(r)
    /\ RaisedInTask(r) \/ future[r] \in ProviderErrors

\* str(e) of the failure of flow r
FailureText(r) ==
    IF RaisedInTask(r) THEN manager_calls[r][1].raised ELSE future[r]

ErrorRecorded(r) ==
    /\ r \in Rids
    /\ Status(requests[r].account_name) = ERROR
    /\ get_status(statues, requests[r].account_name).message = FailureText(r)

\* C5 as stated: an accepted create flow that fails at either stage, with no
\* further operation submitted for the account, eventually has status ERROR with
\* the error text as message, for good.
C5_Original ==
    \A r \in 1..MaxRequests :
        (<>CreateFailed(r) /\ []~LaterRequest(r)) => <>[]ErrorRecorded(r)

\* C5 amended: the same, provided that no other flow for the account is still in
\* flight once the failed flow has ended.
C5_ErrorWhenLast ==
    \A r \in 1..MaxRequests :
        (/\ <>CreateFailed(r)
         /\ []~LaterRequest(r)
         /\ [](FlowDone(r) => ~OtherInFlight(r)))
            => <>[]ErrorRecorded(r)

\* C5 witness: a create flow failed in its callback after an earlier flow for the
\* same account had ended; the record is ERROR with the provider's error text.
C5_Witness ==
    \E r, q \in Rids :
        /\ q < r
        /\ requests[q].account_name = requests[r].account_name
        /\ CreateFailed(r)
        /\ future[r] \in ProviderErrors
        /\ FlowDone(r)
        /\ FlowDone(q)
        /\ ErrorRecorded(r)

\* C6: a create flow never dispatches more than one provisioning-failure
\* notification, and once a flow that failed at either stage has ended it has
\* dispatched exactly one, carrying the error text of that failure.
C6_ExactlyOneCreateFailure ==
    \A r \in Rids :
        IsCreate(r)
            => /\ Count(r, "create_failure") <= 1
               /\ (CreateFailed(r) /\ FlowDone(r))
                      => /\ Count(r, "create_failure") = 1
                         /\ \A n \in Dispatched(r, "create_failure") :
                                /\ n.error_message = FailureText(r)
                                /\ n.account_name = requests[r].account_name

\* C6 witness: one flow failed in the background task and one in the callback;
\* both have ended with their one failure notification.
C6_Witness ==
    \E r, q \in Rids :
        /\ CreateFailed(r) /\ RaisedInTask(r) /\ FlowDone(r)
        /\ CreateFailed(q) /\ future[q] \in ProviderErrors /\ FlowDone(q)
        /\ Count(r, "create_failure") = 1
        /\ Count(q, "create_failure") = 1

C8_ExactlyOneDeleteSuccess ==
    \A r \in Rids :
        (IsDelete(r) /\ requests[r].probe = "found")
            => /\ response[r].code # 0
                      => response[r].code = 204 /\ response[r].body = EmptyBody
               /\ (future[r] = "ok" /\ FlowDone(r))
                      => /\ Count(r, "delete_success") = 1
                         /\ Count(r, "delete_failure") = 0

\* this step receives a request for the account
SubmittedNow(account_name) ==
    /\ Len(requests') = Len(requests) + 1
    /\ requests'[Len(requests')].account_name = account_name

\* the requests that have named the account
RequestsFor(account_name) == {r \in Rids : requests[r].account_name = account_name}

\* C9 as stated, for an account that one request only has named, so that no
\* overlapping flow can be the writer: a record with status COMPLETED or ERROR
\* changes in no field unless a create or delete request for its account has been
\* submitted since (or is submitted by the very step that changes it).
C9_TerminalRecordFrozen ==
    [][\A a \in AccountNames :
          (/\ Status(a) \in {COMPLETED, ERROR}
           /\ Cardinality(RequestsFor(a)) = 1
           /\ get_status(statues', a) # get_status(statues, a))
              => submitted_since[a] \/ SubmittedNow(a)]_vars

\* the notification call of the running unit has returned without a delivery
TransportFailed(u) ==
    /\ u.pc \in {"sent_success", "sent_failure"}
    /\ ~u.delivered

\* C10: when the transport fails (connect, login or send) under any of the four
\* notifications, the call raises nothing into its caller and changes no record
\* and no response; the unit then ends as it would have: no record changes, no
\* except branch is entered, no exception escapes, and a DELETE handler answers
\* 204 after its success notification and 404 after its failure notification.
C10_TransportFailureIsSilent ==
    [][/\ (running.pc \in {"notify_success", "notify_failure"}
             /\ TransportFailed(running'))
          => /\ statues' = statues
             /\ response' = response
             /\ unhandled' = unhandled
             /\ running'.exc = None
       /\ (TransportFailed(running) /\ running' # running)
          => /\ statues' = statues
             /\ unhandled' = unhandled
             /\ running' = Idle
             /\ IF running.unit = "handler"
                THEN response'[running.rid].code =
                         IF running.pc = "sent_success" THEN 204 ELSE 404
                ELSE response' = response]_vars

\* C10 witness: the transport failed under the success notification of a
\* callback, and the record of its account is COMPLETED.
C10_Witness ==
    /\ TransportFailed(running)
    /\ running.unit = "callback"
    /\ running.pc = "sent_success"
    /\ Status(requests[running.rid].account_name) = COMPLETED

\* C11 as stated: a POST whose body fails validation is answered 400 with
\* error_code VALIDATION_ERROR, and the store then holds an ERROR record for the
\* account name of the body, carrying the validation message.
C11_InvalidBodyIs400 ==
    running.unit = "validation"
        => /\ rejected.resp.code = 400
           /\ rejected.resp.error_code = "VALIDATION_ERROR"
           /\ Status(rejected.account_name) = ERROR
           /\ get_status(statues, rejected.account_name).message
                  = rejected.resp.message

\* C12 as stated: when the provider rejects the accept call
\* (begin_create_or_update) of a create request, the POST is answered 500 with
\* error_code AZURE_ERROR, and the flow sets the status ERROR.
C12_AcceptRejectedIs500 ==
    \A r \in Rids :
        (IsCreate(r) /\ future[r] \in AcceptErrors)
            => /\ response[r].code = 500
               /\ response[r].error_code = "AZURE_ERROR"
               /\ FlowDone(r) => written[r][Len(written[r])] = ERROR

\* the flow that appends to its written statuses in this step
Writer == CHOOSE r \in 1..Len(written') : r > Len(written) \/ written'[r] # written[r]

\* the message update_status is called with beside the status
MessageOf(status, op, err) ==
    IF status = QUEUED THEN None
    ELSE IF status = IN_PROGRESS THEN StartedMessage
    ELSE IF status = COMPLETED THEN CompletedMessage(op)
    ELSE err

\* the store holds one record per account that was ever updated, under its own
\* name and stamped by its latest update; a GET being answered carries it
OneRecordPerAccount ==
    /\ DOMAIN statues = {a \in AccountNames : now[a] > 0}
    /\ \A a \in DOMAIN statues :
           /\ statues[a].account_name = a
           /\ statues[a].created_at = now[a]
           /\ statues[a].updated_at = now[a]
    /\ running.unit = "get"
           => last_get.resp = GetHandler(statues, last_get.account_name)

\* C13: the store holds at most one record per account; get returns not-found
\* before the first update and afterwards exactly the record of the latest
\* update, with the status and the message of that one update and nothing of an
\* earlier one; a step that makes no update changes no record.
C13_LastUpdateWins ==
    /\ []OneRecordPerAccount
    /\ [][\A a \in AccountNames :
             IF now'[a] = now[a]
             THEN get_status(statues', a) = get_status(statues, a)
             ELSE LET status == written'[Writer][Len(written'[Writer])]
                  IN  /\ requests'[Writer].account_name = a
                      /\ get_status(statues', a) =
                             [account_name |-> a, status |-> status,
                              created_at |-> now'[a], updated_at |-> now'[a],
                              message |-> MessageOf(status, requests'[Writer].op,
                                                    running'.err)]]_vars

\* C13 witness: a GET is being answered with the QUEUED record of a second
\* create for an account whose earlier flow had written ERROR.
C13_Witness ==
    /\ running.unit = "get"
    /\ last_get.resp.code = 200
    /\ last_get.resp.body.status = QUEUED
    /\ last_get.resp.body.message = None
    /\ \E q \in Rids :
           /\ requests[q].account_name = last_get.account_name
           /\ Len(written[q]) > 0
           /\ written[q][Len(written[q])] = ERROR

\* the calls of the manager's create that carry the body of request r
CreateCallsFor(r) ==
    {i \in 1..Len(manager_calls[r]) :
        /\ manager_calls[r][i].fn = "create_account_async"
        /\ manager_calls[r][i].account_name = requests[r].account_name
        /\ manager_calls[r][i].location = requests[r].location
        /\ manager_calls[r][i].api_type = requests[r].api_type}

\* no create is invoked but for an accepted POST, with the body of that POST,
\* and never a second time
CreateCallsAreRequested ==
    \A r \in Rids :
        /\ \A i \in 1..Len(manager_calls[r]) :
               manager_calls[r][i].fn = "create_account_async"
                   => /\ IsCreate(r)
                      /\ response[r].code = 202
                      /\ i \in CreateCallsFor(r)
        /\ IsCreate(r) => Len(manager_calls[r]) <= 1
        /\ (IsCreate(r) /\ background_tasks[r] = "done")
               => Cardinality(CreateCallsFor(r)) = 1

\* C14: every accepted POST leads to exactly one invocation of the manager's
\* create, carrying the account name, location and api_type of that request, and
\* no create is invoked without an accepted request.
C14_OneCreateCallPerRequest ==
    /\ []CreateCallsAreRequested
    /\ \A r \in 1..MaxRequests :
           IsCreate(r) ~> (r \in Rids /\ Cardinality(CreateCallsFor(r)) = 1)

\* C14 witness: two accepted POSTs for one account with different api_type, each
\* with its own call of the manager's create.
C14_Witness ==
    \E r, q \in Rids :
        /\ IsCreate(r) /\ IsCreate(q)
        /\ requests[r].account_name = requests[q].account_name
        /\ requests[r].api_type = "sql"
        /\ requests[q].api_type = "mongo"
        /\ Cardinality(CreateCallsFor(r)) = 1
        /\ Cardinality(CreateCallsFor(q)) = 1
        /\ manager_calls[q][1].api_type = "mongo"

\* C15 as stated: a create flow publishes COMPLETED only when its long-running
\* create operation has completed successfully, never while the operation is
\* pending or after it has failed.
C15_CompletedOnlyAfterSuccess ==
    [][(/\ running.pc = "completed"
        /\ running'.pc = "notify_success"
        /\ IsCreate(running.rid)
        /\ Status(requests[running.rid].account_name)' = COMPLETED)
           => future[running.rid] = "ok"]_vars

\* the notifications of request r that announce a success
SuccessNotifications(r) == Count(r, "create_success") + Count(r, "delete_success")

\* C16 as stated: a create-success or deletion-success notification of a flow is
\* dispatched only after the long-running operation of that flow has completed
\* successfully; a flow whose operation is pending or has failed has none.
C16_SuccessMailOnlyAfterSuccess ==
    \A r \in Rids : SuccessNotifications(r) > 0 => future[r] = "ok"

\* the notifications dispatched for request r
NotificationsOf(r) == {n \in BagToSet(emails) : n.rid = r}

\* C17 as stated, for an account that one request only has named: while the
\* long-running create operation of the flow has not completed, the record is
\* IN_PROGRESS, not COMPLETED or ERROR, and no notification of the flow has been
\* dispatched.
C17_StuckStaysInProgress ==
    \A r \in Rids :
        (/\ IsCreate(r)
         /\ future[r] = "pending"
         /\ Cardinality(RequestsFor(requests[r].account_name)) = 1)
            => /\ Status(requests[r].account_name) = IN_PROGRESS
               /\ NotificationsOf(r) = {}

Terminal == {COMPLETED, ERROR}

\* C18: the statuses one create flow writes come in the order QUEUED,
\* IN_PROGRESS, terminal: QUEUED is its first write, no IN_PROGRESS precedes the
\* QUEUED, no COMPLETED or ERROR precedes the IN_PROGRESS, and after a COMPLETED
\* or ERROR the flow writes neither QUEUED nor IN_PROGRESS.
C18_WritesInOrder ==
    \A r \in Rids :
        IsCreate(r)
            => LET w == written[r]
               IN  /\ Len(w) >= 1
                   /\ w[1] = QUEUED
                   /\ \A i \in 1..Len(w) :
                          /\ w[i] = IN_PROGRESS
                                 => \E j \in 1..(i - 1) : w[j] = QUEUED
                          /\ w[i] \in Terminal
                                 => /\ \E j \in 1..(i - 1) : w[j] = IN_PROGRESS
                                    /\ \A j \in (i + 1)..Len(w) : w[j] \in Terminal

\* C18 witness: a create flow has written QUEUED, IN_PROGRESS, COMPLETED in its
\* task and ERROR in its callback.
C18_Witness ==
    \E r \in Rids :
        /\ IsCreate(r)
        /\ written[r] = <<QUEUED, IN_PROGRESS, COMPLETED, ERROR>>
        /\ FlowDone(r)

\* C19: when the create call of a flow has been issued, the flow has published
\* IN_PROGRESS before; in no state has the call been issued while the last
\* status the flow published is QUEUED.
C19_InProgressBeforeCall ==
    \A r \in Rids :
        (IsCreate(r) /\ (Len(manager_calls[r]) > 0 \/ future[r] # "none"))
            => /\ Len(written[r]) >= 2
               /\ written[r][2] = IN_PROGRESS
               /\ written[r][Len(written[r])] # QUEUED

\* C19 witness: the create call has just been issued, with the operation
\* pending, and the last status the flow published is IN_PROGRESS.
C19_Witness ==
    \E r \in Rids :
        /\ IsCreate(r)
        /\ Len(manager_calls[r]) = 1
        /\ future[r] = "pending"
        /\ written[r] = <<QUEUED, IN_PROGRESS>>
        /\ Status(requests[r].account_name) = IN_PROGRESS

\* this step writes ERROR into the record of the account
WritesError(account_name) ==
    /\ now'[account_name] # now[account_name]
    /\ get_status(statues', account_name).status = ERROR

\* this step adds one failure notification of the running unit, for the
\* account and with the error text of the ERROR record, and nothing else
OneFailureAttempt ==
    \E n \in BagToSet(emails') :
        /\ emails' = emails (+) SetToBag({n})
        /\ n.rid = running.rid
        /\ n.unit = running.unit
        /\ n.kind \in {"create_failure", "delete_failure"}
        /\ n.account_name = requests[running.rid].account_name
        /\ n.error_message = get_status(statues, n.account_name).message

\* C20: the unit that writes ERROR goes on to the failure notification at once:
\* its next step dispatches exactly one failure notification for the account and
\* the error text of the record, the call raises nothing into the unit whatever
\* the transport does, and the unit then ends without another notification.
C20_ErrorThenOneNotification ==
    [][/\ \A a \in AccountNames :
             WritesError(a)
                 => /\ running'.pc = "notify_failure"
                    /\ requests[running'.rid].account_name = a
                    /\ running'.err = get_status(statues', a).message
       /\ (/\ running.pc = "notify_failure"
           /\ running.unit \in {"task", "callback"}
           /\ running' # running)
              => /\ OneFailureAttempt
                 /\ running'.pc = "sent_failure"
                 /\ running'.exc = None
                 /\ statues' = statues
       /\ (/\ running.pc = "sent_failure"
           /\ running.unit \in {"task", "callback"}
           /\ running' # running)
              => /\ running' = Idle
                 /\ emails' = emails
                 /\ unhandled' = unhandled
                 /\ statues' = statues]_vars

\* C20 witness: a callback has written ERROR and made its one failure
\* notification attempt, which the transport refused at login.
C20_Witness ==
    /\ running.unit = "callback"
    /\ running.pc = "sent_failure"
    /\ running.connection
    /\ ~running.delivered
    /\ Status(requests[running.rid].account_name) = ERROR
    /\ Count(running.rid, "create_failure") = 1

\* C21 as stated: a DELETE whose existence probe could not reach the provider
\* (database_accounts.get failed with an AzureError other than not-found) is
\* never answered 404 ACCOUNT_NOT_FOUND, and its manager call never raises the
\* does-not-exist error; only a probe answered not-found does.
C21_ProbeFailureIsNot404 ==
    \A r \in Rids :
        (IsDelete(r) /\ response[r].code # 0)
            => /\ requests[r].probe = "not_found"
                   => manager_calls[r][1].raised =
                          DoesNotExist(requests[r].account_name)
               /\ requests[r].probe = "azure_error"
                   => /\ manager_calls[r][1].raised #
                             DoesNotExist(requests[r].account_name)
                      /\ ~(/\ response[r].code = 404
                           /\ response[r].error_code = "ACCOUNT_NOT_FOUND")

\* C22 as stated: the first record ever stored for an account has status QUEUED.
C22_FirstRecordIsQueued ==
    \A a \in DOMAIN statues : now[a] = 1 => statues[a].status = QUEUED

\* C23: no step removes a record; the set of stored account names only grows.
C23_RecordsNeverRemoved ==
    [][DOMAIN statues \subseteq DOMAIN statues']_vars

\* C23 witness: both accounts have a record, one of them left by a delete flow
\* that succeeded and ran its callback, and a status read of it is answered.
C23_Witness ==
    /\ DOMAIN statues = AccountNames
    /\ \E r \in Rids :
           /\ IsDelete(r)
           /\ future[r] = "ok"
           /\ callback[r] = "done"
           /\ Status(requests[r].account_name) = COMPLETED
           /\ last_get.account_name = requests[r].account_name
           /\ last_get.resp.code = 200

\* C24: every stored record is the whole record of the account's latest update:
\* created_at and updated_at both equal the time of that update, so after a
\* second update the time of the first insert is no longer stored.
C24_CreatedAtIsReset ==
    /\ \A a \in DOMAIN statues :
           /\ statues[a].created_at = statues[a].updated_at
           /\ statues[a].updated_at = now[a]
           /\ now[a] >= 2 => statues[a].created_at # 1
    /\ [][\A a \in DOMAIN statues' :
              (a \notin DOMAIN statues \/ statues'[a] # statues[a])
                  => /\ now'[a] = now[a] + 1
                     /\ statues'[a].created_at = now'[a]
                     /\ statues'[a].updated_at = now'[a]
                     /\ statues'[a].account_name = a]_vars

\* C24 witness: a record has been updated a third time, by the flow's callback.
C24_Witness ==
    \E r \in Rids :
        /\ IsCreate(r)
        /\ callback[r] = "done"
        /\ now[requests[r].account_name] >= 3
        /\ statues[requests[r].account_name].created_at
               = now[requests[r].account_name]

\* the flow of request r waits for the provider: for the answer to its existence
\* probe, or for its long-running operation to finish
WaitingOnProvider(r) ==
    /\ r \in Rids
    /\ \/ running.rid = r /\ running.pc = "probe"
       \/ future[r] = "pending" /\ running = Idle

\* C25 as stated: while a create or delete flow for one account waits for the
\* provider (existence probe, or completion of the submitted operation), the
\* handler of a status request for any other account can take its step.
C25_OtherAccountsNotBlocked ==
    \A r \in Rids :
        WaitingOnProvider(r)
            => \A b \in AccountNames \ {requests[r].account_name} :
                   ENABLED GetStatus(b)

\* the status flow r wrote last
LastWritten(r) == written[r][Len(written[r])]

\* a later flow for the account of r has published a status
LaterFlowPublished(r) ==
    \E q \in Rids : /\ q > r
                    /\ requests[q].account_name = requests[r].account_name
                    /\ written[q] # << >>

\* C26 as stated: a completion callback of an earlier flow never writes the
\* record of its account once a later flow for that account has published a
\* status.
C26_Original ==
    [][(/\ running.unit = "callback"
        /\ statues' # statues)
           => ~LaterFlowPublished(running.rid)]_vars

\* C26 amended: the last writer wins.  The stored status of an account is the
\* status last written by the flow that wrote its record last; every write
\* makes its flow the last writer, later flows notwithstanding; and a flow all
\* of whose units have ended never writes again.
C26_LastWriterWins ==
    /\ [](\A a \in AccountNames :
             IF last_writer[a] = 0 THEN a \notin DOMAIN statues
             ELSE /\ last_writer[a] \in Rids
                  /\ requests[last_writer[a]].account_name = a
                  /\ a \in DOMAIN statues
                  /\ statues[a].status = LastWritten(last_writer[a]))
    /\ [][\A r \in 1..Len(written') :
              (r > Len(written) \/ written'[r] # written[r])
                  => /\ written'[r] # << >>
                         => last_writer'[requests'[r].account_name] = r
                     /\ r \in Rids => ~FlowDone(r)]_vars

\* C26 witness: the completion callback of an earlier flow has written over the
\* status a later flow for the same account had published.
C26_Witness ==
    \E q \in Rids :
        /\ running.unit = "callback"
        /\ running.rid = q
        /\ running.pc \in {"notify_success", "notify_failure"}
        /\ LaterFlowPublished(q)
        /\ last_writer[requests[q].account_name] = q
        /\ Status(requests[q].account_name) = LastWritten(q)

\* a DELETE whose existence probe was answered and came out false
ProbeFalse(r) ==
    /\ IsDelete(r)
    /\ requests[r].probe \in Probes
    /\ ~account_exists(requests[r].probe)

\* C27: a DELETE whose existence probe is false hands no delete call to the
\* provider, registers no completion callback and writes no status; no step of
\* its handler, from the arrival of the request to its response, changes the
\* status store.
C27_DeleteMissingFailsFast ==
    /\ [](\A r \in Rids :
             ProbeFalse(r) => /\ provider_calls[r] = << >>
                              /\ future[r] = "none"
                              /\ callback[r] = "none"
                              /\ written[r] = << >>)
    /\ [][(\/ /\ Len(requests') = Len(requests) + 1
              /\ requests'[Len(requests')].op = "delete"
           \/ /\ running.unit = "handler"
              /\ running' # running
              /\ ~account_exists(requests'[running.rid].probe))
              => /\ statues' = statues
                 /\ now' = now
                 /\ last_writer' = last_writer]_vars

\* C27 witness: a DELETE for an account that has a record, but which the
\* provider does not have, has been answered 404; nothing was submitted.
C27_Witness ==
    \E r \in Rids :
        /\ ProbeFalse(r)
        /\ requests[r].probe = "not_found"
        /\ response[r].code = 404
        /\ requests[r].account_name \in DOMAIN statues
        /\ provider_calls[r] = << >>
        /\ callback[r] = "none"

\* C28: every create call sent to the provider is for the account and location
\* of its request and carries the kind and API properties of the request's API
\* type: SQL goes as GlobalDocumentDB without API properties, MONGO as MongoDB
\* with the server-version property; nothing else is sent, and a create flow
\* sends at most one call.
C28_KindAndVersionMapped ==
    \A r \in Rids :
        /\ IsCreate(r) => Len(provider_calls[r]) <= 1
        /\ \A i \in 1..Len(provider_calls[r]) :
               provider_calls[r][i].fn = "begin_create_or_update"
                   => /\ IsCreate(r)
                      /\ provider_calls[r][i].account_name = requests[r].account_name
                      /\ provider_calls[r][i].params.location = requests[r].location
                      /\ \/ /\ requests[r].api_type = "sql"
                            /\ provider_calls[r][i].params.kind = "GlobalDocumentDB"
                            /\ provider_calls[r][i].params.api_properties = None
                         \/ /\ requests[r].api_type = "mongo"
                            /\ provider_calls[r][i].params.kind = "MongoDB"
                            /\ provider_calls[r][i].params.api_properties
                                   = "ApiProperties(server_version=3.2)"

\* C28 witness: one create call for a MONGO account and one for a SQL account
\* have been handed to the provider.
C28_Witness ==
    \E r, q \in Rids :
        /\ requests[r].api_type = "mongo"
        /\ requests[q].api_type = "sql"
        /\ Len(provider_calls[r]) = 1
        /\ Len(provider_calls[q]) = 1
        /\ provider_calls[r][1].params.kind = "MongoDB"
        /\ provider_calls[q][1].params.kind = "GlobalDocumentDB"

\* a sender that was never connected, or was disconnected
Disconnected == [connection |-> FALSE, exc |-> None, delivered |-> FALSE]

\* C29 as stated: send on a sender without a connection is refused with an
\* error and delivers nothing, and after every notification attempt made
\* through the context manager (sent, send failed, connect or login failed)
\* the sender holds no open connection.
C29_SenderEndsDisconnected ==
    /\ \A t \in Transports :
           /\ GmailSenderSend(Disconnected, t).exc = "RuntimeError"
           /\ ~GmailSenderSend(Disconnected, t).delivered
    /\ running.pc \in {"sent_success", "sent_failure"} => ~running.connection

====
